---- MODULE Spec2Model ----
(***************************************************************************)
(* Model of cyclo: the per-file analysis (extension filter, language       *)
(* classifier, complexity estimator, line counter) and the treemap         *)
(* hierarchy built by main from the walked directory entries.              *)
(*                                                                         *)
(* Strings are sequences of one-character strings, so that ends_with,      *)
(* contains, split and join are computed character by character.           *)
(***************************************************************************)
EXTENDS Integers, Sequences, FiniteSets, TLC

VARIABLES
    \* ---- the run of main (specification Spec) ----
    root,       \* args.path, the string given on the command line
    debug,      \* args.debug
    tree,       \* the directory tree below root: the set of relative paths
    visited,    \* entries the walker has already produced (or filtered)
    stack,      \* the walker's stack of directories still being listed
    entry,      \* the loop variable of main: the entry of this iteration
    outcome,    \* what the iteration did with entry
    nlocs, labels, parents, ccs,    \* the four result vectors of main
    pc,         \* position of main
    chart,      \* html/scripts/cyclo.js: NotWritten or the values written
    debugFile,  \* debug.txt: NotWritten or the lines written
    \* ---- the extension filters alone (specification SpecExt) ----
    fname,      \* a file name
    fvalid,     \* is_file_extension_valid(fname)
    ftag,       \* get_file_extension(fname)
    \* ---- the complexity estimator alone (specification SpecCC) ----
    ccTag,      \* the language tag of the file being scanned
    ccLines,    \* the lines of the file being scanned
    ccScore     \* the value get_file_complexity returns

runVars == <<root, debug, tree, visited, stack, entry, outcome,
             nlocs, labels, parents, ccs, pc, chart, debugFile>>
extVars == <<fname, fvalid, ftag>>
ccVars  == <<ccTag, ccLines, ccScore>>
vars    == <<runVars, extVars, ccVars>>

----------------------------------------------------------------------------
(* str helpers of the Rust standard library, on sequences of characters *)

\* s.starts_with(p)
StartsWith(s, p) ==
    /\ Len(p) <= Len(s)
    /\ SubSeq(s, 1, Len(p)) = p

\* s.ends_with(p)
EndsWith(s, p) ==
    /\ Len(p) <= Len(s)
    /\ SubSeq(s, Len(s) - Len(p) + 1, Len(s)) = p

\* s.contains(p): p occurs in s as a literal substring
Contains(s, p) ==
    \E i \in 1..(Len(s) - Len(p) + 1) : SubSeq(s, i, i + Len(p) - 1) = p

\* the position of the last occurrence of character ch in s, 0 if none
RECURSIVE LastIndexFrom(_, _, _)
LastIndexFrom(s, ch, i) ==
    IF i = 0 THEN 0
    ELSE IF s[i] = ch THEN i
    ELSE LastIndexFrom(s, ch, i - 1)

LastIndexOf(s, ch) == LastIndexFrom(s, ch, Len(s))

\* s.rsplit(ch).next().unwrap(): what follows the last ch, all of s if none
RSplitFirst(s, ch) ==
    SubSeq(s, LastIndexOf(s, ch) + 1, Len(s))

\* s.split(ch).collect(): the pieces between the occurrences of ch
RECURSIVE Split(_, _)
Split(s, ch) ==
    LET k == LastIndexOf(s, ch)
    IN  IF k = 0 THEN <<s>>
        ELSE Append(Split(SubSeq(s, 1, k - 1), ch), SubSeq(s, k + 1, Len(s)))

\* parts.join(sep)
RECURSIVE Join(_, _)
Join(parts, sep) ==
    IF Len(parts) = 0 THEN <<>>
    ELSE IF Len(parts) = 1 THEN parts[1]
    ELSE Join(SubSeq(parts, 1, Len(parts) - 1), sep) \o sep \o parts[Len(parts)]

\* v[from..] of a vector, with from counted from 0 as in Rust
SliceFrom(v, from) == SubSeq(v, from + 1, Len(v))

\* v.pop(): the vector without its last element
Pop(v) == SubSeq(v, 1, Len(v) - 1)

\* v.contains(x)
VecContains(v, x) == \E i \in 1..Len(v) : v[i] = x

\* v.iter().sum()
RECURSIVE SumSeq(_)
SumSeq(v) == IF Len(v) = 0 THEN 0 ELSE v[1] + SumSeq(Tail(v))

----------------------------------------------------------------------------
(* file_parser.rs: the extension filter and the classifier *)

extensions ==
    << <<".", "c">>, <<".", "c", "p", "p">>, <<".", "c", "c">>,
       <<".", "c", "x", "x">>, <<".", "p", "y">>, <<".", "j", "s">> >>

\* the filter with the extensions compared without their leading dot
is_file_extension_valid_no_dot(file) ==
    \E i \in 1..Len(extensions) : EndsWith(file, Tail(extensions[i]))

is_file_extension_valid(file) ==
    \E i \in 1..Len(extensions) : EndsWith(file, extensions[i])

is_hidden(name) == StartsWith(name, <<".">>)

\* the classifier with the "cxx" arm missing
get_file_extension_no_cxx(filename) ==
    LET e == RSplitFirst(filename, ".")
    IN  CASE e = <<"c">>           -> "c"
          [] e = <<"c", "c">>      -> "cpp"
          [] e = <<"c", "p", "p">> -> "cpp"
          [] e = <<"p", "y">>      -> "py"
          [] e = <<"j", "s">>      -> "js"
          [] OTHER                 -> ""

get_file_extension(filename) ==
    LET e == RSplitFirst(filename, ".")
    IN  CASE e = <<"c">>           -> "c"
          [] e = <<"c", "c">>      -> "cpp"
          [] e = <<"c", "x", "x">> -> "cpp"
          [] e = <<"c", "p", "p">> -> "cpp"
          [] e = <<"p", "y">>      -> "py"
          [] e = <<"j", "s">>      -> "js"
          [] OTHER                 -> ""

----------------------------------------------------------------------------
(* file_parser.rs: get_file_complexity *)

\* Option<T>, and a panic in place of a value
None == [is |-> "None", val |-> 0]
Some(x) == [is |-> "Some", val |-> x]
Panic == [is |-> "Panic", val |-> 0]

c_comments ==
    << <<"/", "/">>, <<"/", "*">>, <<"*", "/">>, <<"*">>, <<"/", "/", "/">> >>
c_statements ==
    << <<"i", "f", "(">>,
       <<"i", "f", " ", "(">>,
       <<"f", "o", "r", "(">>,
       <<"f", "o", "r", " ", "(">>,
       <<"w", "h", "i", "l", "e", "(">>,
       <<"w", "h", "i", "l", "e", " ", "(">>,
       <<"s", "w", "i", "t", "c", "h">>,
       <<"b", "r", "e", "a", "k">>,
       <<"g", "o", "t", "o">> >>
c_logical_ops == << <<"&", "&">>, <<"|", "|">> >>
c_function_def == <<"r", "e", "t", "u", "r", "n">>

py_comments == << <<"#">> >>
py_statements ==
    << <<"i", "f">>, <<"f", "o", "r">>, <<"w", "h", "i", "l", "e">>,
       <<"b", "r", "e", "a", "k">> >>
py_logical_ops == << <<"a", "n", "d">>, <<"o", "r">>, <<"n", "o", "t">> >>
py_function_def == <<"d", "e", "f", " ">>

js_comments == << <<"/", "/">>, <<"*", "/">>, <<"/", "*">> >>
js_statements == << <<"i", "f">>, <<"f", "o", "r">>, <<"w", "h", "i", "l", "e">> >>
js_logical_ops == << <<"&", "&">>, <<"|", "|">> >>
js_function_def == <<"f", "u", "n", "c", "t", "i", "o", "n">>

\* the match on the extension: the four marker lists of the language
Profile(tag) ==
    CASE tag = "c"   -> [comments |-> c_comments, statements |-> c_statements,
                         logical_ops |-> c_logical_ops, function_def |-> c_function_def]
      [] tag = "cpp" -> [comments |-> c_comments, statements |-> c_statements,
                         logical_ops |-> c_logical_ops, function_def |-> c_function_def]
      [] tag = "py"  -> [comments |-> py_comments, statements |-> py_statements,
                         logical_ops |-> py_logical_ops, function_def |-> py_function_def]
      [] tag = "js"  -> [comments |-> js_comments, statements |-> js_statements,
                         logical_ops |-> js_logical_ops, function_def |-> js_function_def]

\* .filter(|x| comments.iter().all(|n| !x.contains(*n)))
NotComment(x, comments) ==
    \A i \in 1..Len(comments) : ~Contains(x, comments[i])

\* the for loop of .inspect: one is added for each marker the line contains
LogicalOpsOnLine(x, logical_ops) ==
    Cardinality({i \in 1..Len(logical_ops) : Contains(x, logical_ops[i])})

\* .filter(|s| statements.iter().any(|n| s.contains(*n)))
HasStatement(s, statements) ==
    \E i \in 1..Len(statements) : Contains(s, statements[i])

\* logical_ops_count once the iterator has been driven to its end
RECURSIVE LogicalOpsCount(_, _)
LogicalOpsCount(lines, logical_ops) ==
    IF Len(lines) = 0 THEN 0
    ELSE LogicalOpsOnLine(lines[1], logical_ops)
         + LogicalOpsCount(Tail(lines), logical_ops)

\* function_count once the iterator has been driven to its end
FunctionCount(lines, function_def) ==
    Len(SelectSeq(lines, LAMBDA x : Contains(x, function_def)))

\* get_file_complexity on a file that was opened and read: None for an
\* unknown language, else valid_lines.len() + logical_ops_count (the mean
\* over function_count is computed by the code and not returned)
get_file_complexity(tag, lines) ==
    IF tag \notin {"c", "cpp", "py", "js"} THEN None
    ELSE LET p == Profile(tag)
             kept == SelectSeq(lines, LAMBDA x : NotComment(x, p.comments))
             valid_lines == SelectSeq(kept, LAMBDA s : HasStatement(s, p.statements))
         IN  Some(Len(valid_lines) + LogicalOpsCount(kept, p.logical_ops))

\* get_file_nloc, given what tokei's statistics hold for the file's language:
\* None for an unknown language; indexing the statistics by a language they
\* do not hold panics; else the code-line count
NoData == [present |-> FALSE, code |-> 0]
Data(n) == [present |-> TRUE, code |-> n]

get_file_nloc(tag, stat) ==
    IF tag \notin {"c", "cpp", "py", "js"} THEN None
    ELSE IF ~stat.present THEN Panic
    ELSE Some(stat.code)

----------------------------------------------------------------------------
(* the directory trees the runs are checked on *)

MaxEntries == 4     \* entries below the root in a tree

proj   == <<"p", "r", "o", "j">>
sub    == <<"s", "u", "b">>
deep   == <<"d", "e", "e", "p">>
a_c    == <<"a", ".", "c">>
b_py   == <<"b", ".", "p", "y">>
e_cc   == <<"e", ".", "c", "c">>
x_xyz  == <<"x", ".", "x", "y", "z">>
py     == <<"p", "y">>
dotgit == <<".", "g", "i", "t">>
g_js   == <<"g", ".", "j", "s">>
lib_js == <<"l", "i", "b", ".", "j", "s">>

\* args.path: "proj" and "w/proj"
Roots == {proj, <<"w", "/">> \o proj}

\* entries are paths relative to the root, as sequences of names; <<>> is the
\* root directory itself
DirCands  == {<<sub>>, <<sub, deep>>, <<dotgit>>, <<lib_js>>}
FileCands == {<<a_c>>, <<x_xyz>>, <<py>>, <<sub, b_py>>, <<sub, deep, e_cc>>,
              <<dotgit, g_js>>}

Trees ==
    {{<<>>} \cup t : t \in
        {s \in SUBSET (DirCands \cup FileCands) :
            /\ Cardinality(s) <= MaxEntries
            /\ \A e \in s : Len(e) > 1 => Pop(e) \in s}}

\* "if(a&&b)" five times: 10 for C; "for x" twice: 4 for Python
line_if  == <<"i", "f", "(", "a", "&", "&", "b", ")">>
line_for == <<"f", "o", "r", " ", "x">>
Contents == {<<line_if, line_if, line_if, line_if, line_if>>, <<line_for, line_for>>}

\* what opening and reading a file may give: an error, or its lines
Unreadable == [ok |-> FALSE, lines |-> <<>>]
Reads == {Unreadable} \cup {[ok |-> TRUE, lines |-> c] : c \in Contents}

\* what tokei may hold for a file: nothing, or a count of code lines
Stats == {NoData, Data(0), Data(7)}

IsDir(e) == e = <<>> \/ e \in DirCands
FilesOf(t) == {e \in t : ~IsDir(e)}

----------------------------------------------------------------------------
(* walkdir: the depth-first walk, siblings in the order the file system
   happens to list them *)

\* DirEntry::path() as a string: the root, then each name after a "/"
PathStr(e) == IF e = <<>> THEN root ELSE root \o <<"/">> \o Join(e, <<"/">>)

\* DirEntry::file_name()
FileName(e) == LET parts == Split(PathStr(e), "/") IN parts[Len(parts)]

\* DirEntry::depth()
Depth(e) == Len(e)

Unlisted(d, seen) == {e \in tree \ seen : Len(e) = Len(d) + 1 /\ Pop(e) = d}

\* directories whose listing is exhausted are dropped from the stack
RECURSIVE Exhaust(_, _)
Exhaust(stk, seen) ==
    IF Len(stk) > 0 /\ Unlisted(stk[Len(stk)], seen) = {}
    THEN Exhaust(Pop(stk), seen)
    ELSE stk

\* the entries the iterator may produce next
NextEntries ==
    IF <<>> \notin visited THEN {<<>>}
    ELSE IF Len(stack) = 0 THEN {}
    ELSE Unlisted(stack[Len(stack)], visited)

\* the stack once e has been produced: filter_entry does not descend into a
\* directory it rejects
Descend(e, filtered) ==
    Exhaust(IF IsDir(e) /\ ~filtered THEN Append(stack, e) ELSE stack,
            visited \cup {e})

----------------------------------------------------------------------------
(* file_parser.rs: FileParser::file_walk *)

\* file_walk on entry e.  read is what opening the file and reading its lines
\* gives (a directory cannot be read), stat is what tokei's statistics hold for
\* the file's language.  The result is Ok with the four fields set, the error
\* BadFileExtension, or a panic of the process.
file_walk(e, read, stat) ==
    LET filename  == FileName(e)
        tag       == get_file_extension(filename)
        depth     == Depth(e)
        full_path == Split(PathStr(e), "/")
        len       == Len(full_path)
    IN  IF get_file_complexity(tag, <<>>) = None
        THEN [res |-> "Err", why |-> "BadFileExtension"]
        ELSE IF IsDir(e) \/ ~read.ok
        THEN [res |-> "Panic", why |-> "read"]
        ELSE IF get_file_nloc(tag, stat) = None
        THEN [res |-> "Err", why |-> "BadFileExtension"]
        ELSE IF get_file_nloc(tag, stat) = Panic
        THEN [res |-> "Panic", why |-> "statistics"]
        ELSE [res    |-> "Ok",
              cc     |-> get_file_complexity(tag, read.lines).val,
              nloc   |-> get_file_nloc(tag, stat).val,
              label  |-> Join(SliceFrom(full_path, len - depth - 1), <<"/">>),
              parent |-> Join(SliceFrom(Pop(full_path), len - depth - 1), <<"/">>)]

----------------------------------------------------------------------------
(* main.rs: the loop over the walked entries *)

\* the four vectors as one value
Vecs == [nlocs |-> nlocs, ccs |-> ccs, labels |-> labels, parents |-> parents]

\* the Ok arm with label and parent pushed to each other's vector
PushFile_swapped(v, r) ==
    [nlocs   |-> Append(v.nlocs, r.nloc),
     ccs     |-> Append(v.ccs, r.cc),
     labels  |-> Append(v.labels, r.parent),
     parents |-> Append(v.parents, r.label)]

\* the Ok arm: the file's node is pushed
PushFile(v, r) ==
    [nlocs   |-> Append(v.nlocs, r.nloc),
     ccs     |-> Append(v.ccs, r.cc),
     labels  |-> Append(v.labels, r.label),
     parents |-> Append(v.parents, r.parent)]

\* the pass with the directory node inserted whether or not its label is there
AncestorStep_always(v, full_path, lo) ==
    LET label  == Join(SliceFrom(full_path, lo), <<"/">>)
        popped == Pop(full_path)
    IN  [v |-> [nlocs   |-> Append(v.nlocs, 0),
                ccs     |-> Append(v.ccs, 0),
                labels  |-> Append(v.labels, label),
                parents |-> Append(v.parents,
                               IF Len(popped) = 0 THEN <<>>
                               ELSE Join(SliceFrom(popped, lo), <<"/">>))],
         full_path |-> popped]

\* the pass with the label looked up in the parents vector
AncestorStep_checks_parents(v, full_path, lo) ==
    LET label  == Join(SliceFrom(full_path, lo), <<"/">>)
        popped == Pop(full_path)
    IN  IF ~VecContains(v.parents, label)
        THEN [v |-> [nlocs   |-> Append(v.nlocs, 0),
                     ccs     |-> Append(v.ccs, 0),
                     labels  |-> Append(v.labels, label),
                     parents |-> Append(v.parents,
                                    IF Len(popped) = 0 THEN <<>>
                                    ELSE Join(SliceFrom(popped, lo), <<"/">>))],
              full_path |-> popped]
        ELSE [v |-> v, full_path |-> full_path]

\* the pass with full_path.pop() left out
AncestorStep_no_pop(v, full_path, lo) ==
    LET label  == Join(SliceFrom(full_path, lo), <<"/">>)
    IN  IF ~VecContains(v.labels, label)
        THEN [v |-> [nlocs   |-> Append(v.nlocs, 0),
                     ccs     |-> Append(v.ccs, 0),
                     labels  |-> Append(v.labels, label),
                     parents |-> Append(v.parents,
                                    IF Len(full_path) = 0 THEN <<>>
                                    ELSE Join(SliceFrom(full_path, lo), <<"/">>))],
              full_path |-> full_path]
        ELSE [v |-> v, full_path |-> full_path]

\* one pass of the body of "for _ in 0..depth": v and full_path after it
AncestorStep(v, full_path, lo) ==
    LET label  == Join(SliceFrom(full_path, lo), <<"/">>)
        popped == Pop(full_path)
    IN  IF ~VecContains(v.labels, label)
        THEN [v |-> [nlocs   |-> Append(v.nlocs, 0),
                     ccs     |-> Append(v.ccs, 0),
                     labels  |-> Append(v.labels, label),
                     parents |-> Append(v.parents,
                                    IF Len(popped) = 0 THEN <<>>
                                    ELSE Join(SliceFrom(popped, lo), <<"/">>))],
              full_path |-> popped]
        ELSE [v |-> v, full_path |-> full_path]

\* "for _ in 0..depth": n passes
RECURSIVE AncestorLoop(_, _, _, _)
AncestorLoop(v, full_path, lo, n) ==
    IF n = 0 THEN v
    ELSE LET s == AncestorStep(v, full_path, lo)
         IN  AncestorLoop(s.v, s.full_path, lo, n - 1)

\* the loop as "for _ in 1..depth"
Ancestors_one_short(v, e) ==
    LET depth     == Depth(e)
        full_path == Split(PathStr(e), "/")
        len       == Len(full_path)
    IN  IF depth = 0 THEN v
        ELSE AncestorLoop(v, Pop(full_path), len - depth - 1, depth - 1)

\* lines 59-95: the ancestors of entry e, once its node has been pushed
Ancestors(v, e) ==
    LET depth     == Depth(e)
        full_path == Split(PathStr(e), "/")
        len       == Len(full_path)
    IN  AncestorLoop(v, Pop(full_path), len - depth - 1, depth)

\* the body of the for loop once file_walk has returned r
LoopBody(e, r) ==
    CASE r.res = "Ok" ->
           [v |-> Ancestors(PushFile(Vecs, r), e), outcome |-> "ok", pc |-> "walk"]
      [] r.res = "Err" ->
           [v |-> Vecs, outcome |-> "err", pc |-> "walk"]
      [] r.res = "Panic" ->
           [v |-> Vecs, outcome |-> r.why, pc |-> "panic"]

\* an output file that has not been written
NotWritten == [written |-> FALSE]

\* assert!(count > 0, ...) without the check being strict
CountAssert_not_strict(count) == count >= 0

\* assert!(count > 0, ...)
CountAssert(count) == count > 0

RunInit ==
    /\ root \in Roots
    /\ debug \in BOOLEAN
    /\ tree \in Trees
    /\ visited = {}
    /\ stack = <<>>
    /\ entry = <<>>
    /\ outcome = "start"
    /\ nlocs = <<>> /\ labels = <<>> /\ parents = <<>> /\ ccs = <<>>
    /\ pc = "walk"
    /\ chart = NotWritten
    /\ debugFile = NotWritten

\* values the variables of the other specifications keep during a run
ExtIdle == fname = <<>> /\ fvalid = FALSE /\ ftag = "unset"
CCIdle == ccTag = "" /\ ccLines = <<>> /\ ccScore = Panic

Init == RunInit /\ ExtIdle /\ CCIdle

\* one turn of "for entry in walker.filter_entry(|e| !is_hidden(e))": the
\* walker produces an entry e, or an error that entry.as_ref().unwrap() turns
\* into a panic
Iterate ==
    /\ pc = "walk"
    /\ \/ /\ NextEntries # {}
          /\ pc' = "panic"
          /\ outcome' = "walkdir"
          /\ UNCHANGED <<visited, stack, entry, nlocs, ccs, labels, parents>>
       \/ \E e \in NextEntries :
         LET filtered == is_hidden(FileName(e))
         IN  /\ visited' = visited \cup {e}
             /\ stack' = Descend(e, filtered)
             /\ entry' = e
             /\ IF filtered
                THEN /\ outcome' = "filtered"
                     /\ UNCHANGED <<nlocs, ccs, labels, parents, pc>>
                ELSE IF ~is_file_extension_valid(FileName(e))
                THEN /\ outcome' = "skipped"
                     /\ UNCHANGED <<nlocs, ccs, labels, parents, pc>>
                ELSE \E read \in Reads, stat \in Stats :
                       LET b == LoopBody(e, file_walk(e, read, stat))
                       IN  /\ outcome' = b.outcome
                           /\ pc' = b.pc
                           /\ nlocs' = b.v.nlocs
                           /\ ccs' = b.v.ccs
                           /\ labels' = b.v.labels
                           /\ parents' = b.v.parents
    /\ UNCHANGED <<root, debug, tree, chart, debugFile>>
    /\ UNCHANGED <<extVars, ccVars>>

\* the walker has nothing left: lines 100-102, the three assert_eq!
AssertLengths ==
    /\ pc = "walk"
    /\ NextEntries = {}
    /\ IF /\ Len(nlocs) = Len(labels)
          /\ Len(labels) = Len(parents)
          /\ Len(parents) = Len(ccs)
       THEN pc' = "write_js" /\ outcome' = "lengths_ok"
       ELSE pc' = "panic" /\ outcome' = "lengths"
    /\ UNCHANGED <<root, debug, tree, visited, stack, entry,
                   nlocs, labels, parents, ccs, chart, debugFile>>
    /\ UNCHANGED <<extVars, ccVars>>

\* lines 106-125: the mean, assert!(count > 0), fs::write of the chart
WriteJs ==
    /\ pc = "write_js"
    /\ \E written \in BOOLEAN :
         LET sum == SumSeq(ccs)
             count == Len(ccs)
         IN  IF ~CountAssert(count)
             THEN pc' = "panic" /\ outcome' = "count" /\ UNCHANGED chart
             ELSE IF ~written
             THEN pc' = "panic" /\ outcome' = "write" /\ UNCHANGED chart
             ELSE /\ chart' = [written |-> TRUE, values |-> nlocs,
                               labels |-> labels, parents |-> parents,
                               colors |-> ccs, cmid |-> <<sum, count>>]
                  /\ pc' = "debug"
                  /\ outcome' = "chart"
    /\ UNCHANGED <<root, debug, tree, visited, stack, entry,
                   nlocs, labels, parents, ccs, debugFile>>
    /\ UNCHANGED <<extVars, ccVars>>

\* lines 128-137: the debug listing
WriteDebug ==
    /\ pc = "debug"
    /\ \E created \in BOOLEAN :
         IF ~debug
         THEN pc' = "done" /\ outcome' = "done" /\ UNCHANGED debugFile
         ELSE IF ~created
         THEN pc' = "panic" /\ outcome' = "create" /\ UNCHANGED debugFile
         ELSE /\ debugFile' =
                   [written |-> TRUE,
                    lines |-> [i \in 1..Len(nlocs) |->
                                 [file |-> labels[i], nloc |-> nlocs[i], cc |-> ccs[i]]]]
              /\ pc' = "done"
              /\ outcome' = "done"
    /\ UNCHANGED <<root, debug, tree, visited, stack, entry,
                   nlocs, labels, parents, ccs, chart>>
    /\ UNCHANGED <<extVars, ccVars>>

Next == Iterate \/ AssertLengths \/ WriteJs \/ WriteDebug

Spec == Init /\ [][Next]_vars

----------------------------------------------------------------------------
(* the two extension filters applied to one file name *)

MaxNameLen == 5     \* characters in a file name

NameChars == {".", "c", "p", "x", "y", "j", "s"}
Names == UNION {[1..n -> NameChars] : n \in 1..MaxNameLen}

RunIdle ==
    /\ root = proj /\ debug = FALSE /\ tree = {<<>>}
    /\ visited = {} /\ stack = <<>> /\ entry = <<>> /\ outcome = "start"
    /\ nlocs = <<>> /\ labels = <<>> /\ parents = <<>> /\ ccs = <<>>
    /\ pc = "idle" /\ chart = NotWritten /\ debugFile = NotWritten

ExtInit ==
    /\ fname \in Names
    /\ fvalid = FALSE
    /\ ftag = "unset"
    /\ RunIdle /\ CCIdle

\* main's test of the name, and the classification file_walk starts with
Classify ==
    /\ ftag = "unset"
    /\ fvalid' = is_file_extension_valid(fname)
    /\ ftag' = get_file_extension(fname)
    /\ UNCHANGED <<fname, runVars, ccVars>>

ExtNext == Classify

SpecExt == ExtInit /\ [][ExtNext]_vars

----------------------------------------------------------------------------
(* the complexity estimator applied to one file *)

MaxLines == 2       \* lines in a scanned file
MaxTokens == 3      \* tokens a line is made of

Tokens == {<<"&", "&">>, <<"|", "|">>, <<"i", "f", "(">>, <<"/", "/">>,
           <<"o", "r">>, <<"x">>}

RECURSIVE Concat(_)
Concat(toks) == IF Len(toks) = 0 THEN <<>> ELSE toks[1] \o Concat(Tail(toks))

CCLines == {Concat(ts) : ts \in UNION {[1..n -> Tokens] : n \in 0..MaxTokens}}
CCFiles == UNION {[1..n -> CCLines] : n \in 0..MaxLines}

CCInit ==
    /\ ccTag \in {"c", "cpp", "py", "js"}
    /\ ccLines \in CCFiles
    /\ ccScore = Panic
    /\ RunIdle /\ ExtIdle

\* get_file_complexity on the file
Scan ==
    /\ ccScore = Panic
    /\ ccScore' = get_file_complexity(ccTag, ccLines)
    /\ UNCHANGED <<ccTag, ccLines, runVars, extVars>>

CCNext == Scan

SpecCC == CCInit /\ [][CCNext]_vars

----------------------------------------------------------------------------
(* the properties *)

Nodes == 1..Len(labels)

\* the walk is over and the run was not aborted during it
WalkOver == pc \in {"write_js", "debug", "done"}

\* the label of relative path e: the root's own name, then the names of e
RootName == LET parts == Split(root, "/") IN parts[Len(parts)]
LabelOf(e) == Join(<<RootName>> \o e, <<"/">>)

\* the files of the tree that main analyses: not in a hidden directory, not
\* hidden, with a recognized extension
Recognized(name) ==
    \E ext \in {<<".", "c">>, <<".", "c", "p", "p">>, <<".", "c", "c">>,
                <<".", "c", "x", "x">>, <<".", "p", "y">>, <<".", "j", "s">>} :
        EndsWith(name, ext)
Analysed ==
    {f \in FilesOf(tree) :
        /\ \A k \in 1..Len(f) : f[k][1] # "."
        /\ Recognized(f[Len(f)])}
\* the directories above them, the root included
AncestorDirs == UNION {{SubSeq(f, 1, k) : k \in 0..(Len(f) - 1)} : f \in Analysed}

\* C1: every node with a non-empty parent has exactly one other node whose
\* label is that parent (the nodes that have none are the roots, with the
\* empty string as parent)
C1_ParentsResolve ==
    \A i \in Nodes :
        parents[i] # <<>> =>
            Cardinality({j \in Nodes : j # i /\ labels[j] = parents[i]}) = 1

\* a finished run with at least three nodes below other nodes
C1_Witness ==
    /\ pc = "done"
    /\ Cardinality({i \in Nodes : parents[i] # <<>>}) >= 3

\* C2: no two positions of labels hold the same label
C2_LabelsUnique ==
    \A i, j \in Nodes : i # j => labels[i] # labels[j]

\* a finished run in which two nodes have the same directory as parent
C2_Witness ==
    /\ pc = "done"
    /\ \E i, j \in Nodes : i # j /\ parents[i] = parents[j] /\ parents[i] # <<>>

\* C3: once the walk is over the nodes are, whatever the order of the walk,
\* one node per analysed file and one node with complexity 0 and 0 lines per
\* directory above an analysed file, each with the label of its own path and
\* the label of its directory as parent, and no other node
C3_NodesDependOnFilesOnly ==
    WalkOver =>
        /\ Len(labels) = Cardinality(Analysed) + Cardinality(AncestorDirs)
        /\ \A f \in Analysed :
             \E i \in Nodes : /\ labels[i] = LabelOf(f)
                              /\ parents[i] = LabelOf(Pop(f))
        /\ \A d \in AncestorDirs :
             \E i \in Nodes : /\ labels[i] = LabelOf(d)
                              /\ parents[i] = IF d = <<>> THEN <<>> ELSE LabelOf(Pop(d))
                              /\ ccs[i] = 0
                              /\ nlocs[i] = 0

\* a finished run over two analysed files below three directories
C3_Witness ==
    /\ pc = "done"
    /\ Cardinality(Analysed) = 2
    /\ Cardinality(AncestorDirs) = 3

\* the tree of the example: proj/a.c and proj/sub/b.py, scored 10 and 4
C4_Case ==
    /\ pc = "done"
    /\ tree = {<<>>, <<a_c>>, <<sub>>, <<sub, b_py>>}
    /\ \E i, j \in Nodes : ccs[i] = 10 /\ ccs[j] = 4

NodeTriples == {<<labels[i], parents[i], ccs[i]>> : i \in Nodes}

\* C4 as stated: the example's run ends with exactly the three nodes
\* proj/a.c, proj/sub/b.py and proj/sub
C4_ThreeNodes ==
    C4_Case =>
        NodeTriples = {<<proj \o <<"/">> \o a_c, proj, 10>>,
                       <<proj \o <<"/">> \o sub \o <<"/">> \o b_py,
                         proj \o <<"/">> \o sub, 4>>,
                       <<proj \o <<"/">> \o sub, proj, 0>>}

\* C4, amended: the example's run ends with exactly four nodes, the three of
\* the example and the root proj with the empty parent and complexity 0
C4_FourNodes ==
    C4_Case =>
        NodeTriples = {<<proj \o <<"/">> \o a_c, proj, 10>>,
                       <<proj \o <<"/">> \o sub \o <<"/">> \o b_py,
                         proj \o <<"/">> \o sub, 4>>,
                       <<proj \o <<"/">> \o sub, proj, 0>>,
                       <<proj, <<>>, 0>>}

\* C5 as stated: when tokei holds no data for a classified file, the file is
\* skipped and main goes on with the walk
C5_NoDataSkipsFile ==
    outcome = "statistics" => pc = "walk"

\* the occurrences of marker m in line x, each position counted
Occurrences(x, m) ==
    Cardinality({i \in 1..(Len(x) - Len(m) + 1) : SubSeq(x, i, i + Len(m) - 1) = m})

RECURSIVE OccurrencesTotal(_, _)
OccurrencesTotal(lines, markers) ==
    IF Len(lines) = 0 THEN 0
    ELSE LET x == lines[1]
             RECURSIVE OnLine(_)
             OnLine(k) == IF k = 0 THEN 0
                          ELSE Occurrences(x, markers[k]) + OnLine(k - 1)
         IN  OnLine(Len(markers)) + OccurrencesTotal(Tail(lines), markers)

\* C6 as stated: the score is the number of occurrences of the logical-operator
\* markers in the comment-filtered lines, every occurrence counted, plus the
\* number of comment-filtered lines that contain a statement marker
C6_EveryOccurrenceCounted ==
    ccScore.is = "Some" =>
        LET p == Profile(ccTag)
            kept == SelectSeq(ccLines, LAMBDA x : NotComment(x, p.comments))
        IN  ccScore.val =
                OccurrencesTotal(kept, p.logical_ops)
                + Len(SelectSeq(kept, LAMBDA s : HasStatement(s, p.statements)))

\* C7: while the node set is empty neither output file has been written, and
\* main never gets past the check that the node set is not empty
C7_NoOutputWhenEmpty ==
    Len(labels) = 0 =>
        /\ ~chart.written
        /\ ~debugFile.written
        /\ pc \notin {"debug", "done"}

\* a walk over entries that gave no node, aborted by the check
C7_Witness ==
    /\ pc = "panic"
    /\ outcome = "count"
    /\ Cardinality(tree) > 1
    /\ ~chart.written /\ ~debugFile.written

\* C8: a turn of the loop on an entry whose name has no recognized extension
\* leaves the four vectors as they are, and main goes on with the walk
C8_UnrecognizedLeavesVectors ==
    [][(pc = "walk" /\ visited' # visited /\ ~Recognized(FileName(entry')))
        => (UNCHANGED <<nlocs, ccs, labels, parents>> /\ pc' = "walk")]_vars

\* a finished run that met x.xyz and has nodes for other files
C8_Witness ==
    /\ pc = "done"
    /\ <<x_xyz>> \in visited
    /\ Len(labels) > 0

\* the builder as specified: at each of the n levels, the directory is
\* inserted if its label is absent, and the path loses its last component
SpecifiedAncestors(v, dirs, n) ==
    LET RECURSIVE Up(_, _, _)
        Up(w, d, k) ==
            IF k = 0 THEN w
            ELSE LET label == Join(d, <<"/">>)
                     up == Pop(d)
                 IN  Up(IF VecContains(w.labels, label) THEN w
                        ELSE [nlocs   |-> Append(w.nlocs, 0),
                              ccs     |-> Append(w.ccs, 0),
                              labels  |-> Append(w.labels, label),
                              parents |-> Append(w.parents,
                                             IF Len(up) = 0 THEN <<>>
                                             ELSE Join(up, <<"/">>))],
                        up, k - 1)
    IN  Up(v, dirs, n)

\* C9: a turn of the loop that analysed a file leaves the four vectors as the
\* specified builder leaves them, in the same order
C9_LoopIsSpecifiedBuilder ==
    [][(visited' # visited /\ outcome' = "ok") =>
        LET k == Len(labels) + 1
            pushed == [nlocs   |-> Append(nlocs, nlocs'[k]),
                       ccs     |-> Append(ccs, ccs'[k]),
                       labels  |-> Append(labels, labels'[k]),
                       parents |-> Append(parents, parents'[k])]
            built == SpecifiedAncestors(pushed, <<RootName>> \o Pop(entry'),
                                        Len(entry'))
        IN  /\ nlocs' = built.nlocs
            /\ ccs' = built.ccs
            /\ labels' = built.labels
            /\ parents' = built.parents]_vars

\* a finished run in which a file three levels down came after a file two
\* levels down: the loop met a label that was already there
C9_Witness ==
    /\ pc = "done"
    /\ \E i, j \in Nodes :
         /\ i < j
         /\ labels[i] = LabelOf(<<sub, b_py>>)
         /\ labels[j] = LabelOf(<<sub, deep, e_cc>>)

\* C10: a name the filter of main accepts is classified to a language tag
\* that get_file_complexity knows
C10_AcceptedIsClassified ==
    (ftag # "unset" /\ fvalid) =>
        /\ ftag # ""
        /\ get_file_complexity(ftag, <<>>).is = "Some"

\* the name x.cxx, accepted and classified as C++
C10_Witness ==
    /\ ftag = "cpp"
    /\ fvalid
    /\ fname = <<"x", ".", "c", "x", "x">>

====
